---- MODULE Spec2Model ----
(***************************************************************************)
(* firebase-wasm-rs: the callback-to-poll bridge of UploadTaskAsyncIter    *)
(* (src/src/storage.rs), with its teardown and its RefCell borrows, and    *)
(* run_transaction (src/src/firestore.rs): the update closure, its         *)
(* exclusive borrow, and the classification of the final rejection.        *)
(*                                                                         *)
(* Everything runs on one cooperative scheduler: a callback turn and a     *)
(* poll turn never overlap, so each is one atomic action.                  *)
(***************************************************************************)
EXTENDS Integers, Sequences, FiniteSets, TLC

\* ---------------------------------------------------------------- bounds
\* Number of on-progress deliveries the emitter makes (snapshots are
\* identified by their delivery ordinal 1..MaxSnapshots).
MaxSnapshots == 3
\* Number of times the external retry loop invokes the update closure.
MaxAttempts == 3
\* Number of distinct wakers a scheduler may hand to poll_next.
NumWakers == 2

Wakers == 1..NumWakers
\* JsValue payloads the emitter may hand to the error callback.
Errors == {"e1", "e2"}

\* Option<T>: None is the empty tuple, Some(x) the one-element tuple.
None == <<>>
Some(x) == <<x>>

\* Poll<Option<Result<UploadTaskSnapshot, JsValue>>>
Pending == <<"Pending">>
ReadyNone == <<"Ready", "None">>
ReadyOk(s) == <<"Ready", "Ok", s>>
ReadyErr(e) == <<"Ready", "Err", e>>
NotPolled == <<"NotPolled">>

VARIABLES
    phase,       \* "task": no iterator yet; "iter": UploadTaskAsyncIter alive; "dropped"
    snapshot,    \* Rc<RefCell<Option<UploadTaskSnapshot>>>
    err,         \* Rc<RefCell<Option<JsValue>>>
    completed,   \* Rc<RefCell<bool>>
    waker,       \* Rc<RefCell<Option<Waker>>>
    unsubCalls,  \* number of invocations of the function returned by on(...)
    emitter,     \* the upload task's observer protocol: "active" or "ended"
    delivered,   \* number of on-progress deliveries so far (= id of the latest)
    sincePoll,   \* on-progress deliveries since the most recent poll_next
    errDelivered,\* Option: the error handed to on_err
    lastPoll,    \* return value of the most recent poll_next
    prevPoll,    \* return value of the poll_next before it
    cx,          \* Option: the waker of the Context of the most recent poll_next
    woken,       \* wakers on which wake_by_ref ran since the most recent poll_next
    yielded,     \* the elements (Ok/Err) returned so far, in order
    exhausted,   \* polls that returned Ready(None): "no", "once", "again"
    superseded,  \* snapshots overwritten in the slot before any poll took them
    polledOver,  \* sincePoll as the most recent poll_next found it
    teardown,    \* what drop has called and released, in order
    misfired,    \* a callback was invoked on a closure already released
    held,        \* the borrows outstanding on each RefCell between turns
    borrowPanic, \* a borrow()/borrow_mut() found a conflicting borrow
    op,          \* the operation that ran last
    \* ---- run_transaction (firestore.rs)
    tpc,         \* "idle", "loop", "awaiting", "answered", "settled", "done"
    attempts,    \* invocations of the update_fn closure by the retry loop
    calls,       \* calls of the user's mutation function
    borrowed,    \* the RefCell around the mutation function is mutably borrowed
    attempt,     \* Option: how the promise of the latest attempt settled
    final,       \* the promise of b::run_transaction
    result,      \* Option: the value run_transaction returned
    outcome,     \* Option: the Result the mutation function's future gave last
    executing,   \* futures of the mutation function in flight
    fault        \* borrow_mut panicked (BorrowMutError)

streamVars == <<phase, snapshot, err, completed, waker, unsubCalls, emitter,
                delivered, sincePoll, errDelivered, lastPoll, prevPoll, cx,
                woken, yielded, exhausted, superseded, polledOver, teardown,
                misfired, held, borrowPanic, op>>

txnVars == <<tpc, attempts, calls, borrowed, attempt, final, result,
             outcome, executing, fault>>

vars == <<streamVars, txnVars>>

\* ------------------------------------------------------- storage.rs helpers

\* line 27: *snapshot.borrow_mut() = Some(js_snapshot)
StoreSnapshotKeepFirst(slot, js) == IF slot = None THEN Some(js) ELSE slot
StoreSnapshot(slot, js) == Some(js)

\* line 37: *err.borrow_mut() = Some(js_err)
StoreErr(slot, js) == Some(js)

\* lines 40 and 49: *completed.borrow_mut() = true
CompletedNotSet(flag) == flag
SetCompleted(flag) == TRUE

\* lines 29-31, 42-44, 52-56: if let Some(w) = waker.borrow().as_ref() { w.wake_by_ref() }
WakeNobody(slot, set) == set
Wake(slot, set) == IF slot # None THEN set \cup {slot[1]} ELSE set

\* line 103: *self.waker.borrow_mut() = Some(cx.waker().to_owned())
StoreWakerIfEmpty(slot, w) == IF slot = None THEN Some(w) ELSE slot
StoreWaker(slot, w) == Some(w)

\* line 106: self.err.borrow_mut().take()  (the slot after the take)
ErrNotTaken(slot) == slot
TakeErr(slot) == None

\* lines 105-126: the branch structure of poll_next; the record holds the
\* value returned and the two slots as the call leaves them.
PollSnapshotFirst(c, e, s) ==
    IF s # None THEN [ret |-> ReadyOk(s[1]), err |-> e, snapshot |-> None]
    ELSE IF c THEN
        IF e # None THEN [ret |-> ReadyErr(e[1]), err |-> TakeErr(e), snapshot |-> s]
        ELSE [ret |-> ReadyNone, err |-> e, snapshot |-> s]
    ELSE [ret |-> Pending, err |-> e, snapshot |-> s]
PollDrainsSlot(c, e, s) ==
    IF c THEN
        IF e # None THEN [ret |-> ReadyErr(e[1]), err |-> TakeErr(e), snapshot |-> s]
        ELSE IF s # None THEN [ret |-> ReadyOk(s[1]), err |-> e, snapshot |-> None]
        ELSE [ret |-> ReadyNone, err |-> e, snapshot |-> s]
    ELSE IF s # None THEN [ret |-> ReadyOk(s[1]), err |-> e, snapshot |-> None]
    ELSE [ret |-> Pending, err |-> e, snapshot |-> s]
PollClonesSnapshot(c, e, s) ==
    IF c THEN
        IF e # None THEN [ret |-> ReadyErr(e[1]), err |-> TakeErr(e), snapshot |-> s]
        ELSE [ret |-> ReadyNone, err |-> e, snapshot |-> s]
    ELSE IF s # None THEN [ret |-> ReadyOk(s[1]), err |-> e, snapshot |-> s]
    ELSE [ret |-> Pending, err |-> e, snapshot |-> s]
PollClearsSlotAtEnd(c, e, s) ==
    IF c THEN
        IF e # None THEN [ret |-> ReadyErr(e[1]), err |-> TakeErr(e), snapshot |-> s]
        ELSE [ret |-> ReadyNone, err |-> e, snapshot |-> None]
    ELSE IF s # None THEN [ret |-> ReadyOk(s[1]), err |-> e, snapshot |-> None]
    ELSE [ret |-> Pending, err |-> e, snapshot |-> s]
PollBranches(c, e, s) ==
    IF c THEN
        IF e # None THEN [ret |-> ReadyErr(e[1]), err |-> TakeErr(e), snapshot |-> s]
        ELSE [ret |-> ReadyNone, err |-> e, snapshot |-> s]
    ELSE IF s # None THEN [ret |-> ReadyOk(s[1]), err |-> e, snapshot |-> None]
    ELSE [ret |-> Pending, err |-> e, snapshot |-> s]

\* line 105: *self.completed.borrow() -- poll_next only reads the flag
PollClearsCompleted(c) == FALSE
CompletedAfterPoll(c) == c

\* lines 99-127: poll_next never touches self.unsub, whatever it returns
PollUnsubsAtEnd(n, ret) == IF ret = ReadyNone THEN n + 1 ELSE n
UnsubAfterPoll(n, ret) == n

\* line 92: self.unsub.call0(&JsValue::UNDEFINED).unwrap()
DropWithoutUnsub(n) == n
CallUnsub(n) == n + 1

\* lines 79-94: what dropping the iterator does, in order: the body of
\* Drop::drop (the unsub call), then the fields in declaration order.
Closures == {"_on_snapshot", "_on_err", "_on_complete"}
Cells == {"snapshot", "err", "completed", "waker"}
ClosuresReleasedFirst ==
    <<"_on_snapshot", "_on_err", "_on_complete", "unsub.call0",
      "snapshot", "err", "completed", "waker", "unsub">>
TeardownOrder ==
    <<"unsub.call0", "_on_snapshot", "_on_err", "_on_complete",
      "snapshot", "err", "completed", "waker", "unsub">>
\* The emitter fires a callback after the first k steps of the teardown:
\* it still holds the registration and a closure is gone.
MisfireAt(order, k) ==
    LET done == {order[i] : i \in 1..k} IN
        "unsub.call0" \notin done /\ done \cap Closures # {}


\* ----------------------------------------------------- firestore.rs helpers

\* A JsValue as the classification sees it: whether it is an instance of
\* Object, the name of its constructor, its code and message properties
\* (None when the property is absent) and, for a primitive, its value.
Prim(p) == [isObject |-> FALSE, ctor |-> "", code |-> None, message |-> None, prim |-> p]
Obj(c, code, msg) == [isObject |-> TRUE, ctor |-> c, code |-> code, message |-> msg, prim |-> ""]

\* Code strings a FirebaseError may carry: the sixteen the crate names and
\* some it does not (other spellings, the empty string).
Codes ==
    { "cancelled", "unknown", "invalid-argument", "deadline-exceeded",
      "not-found", "already-exists", "permission-denied",
      "resource-exhausted", "failed-precondition", "aborted", "out-of-range",
      "unimplemented", "internal", "unavailable", "data-loss",
      "unauthenticated",
      "NOT-FOUND", "Not-Found", "notfound", "not_found", "NotFound", "other",
      "Other", "" }

\* What the mutation function or the retry loop may reject with.
RejectionValues ==
    {Obj("FirebaseError", Some(c), Some("x")) : c \in Codes} \cup
    { Prim("42"), Prim("boom"), Prim("undefined"),
      Obj("FirebaseError", Some("not-found"), Some("x")),
      Obj("FirebaseError", Some("aborted"), Some("contention")),
      Obj("FirebaseError", Some("no-such-code"), Some("y")),
      Obj("Object", Some("not-found"), Some("x")),
      Obj("Object", None, None),
      Obj("Error", None, Some("boom")),
      Obj("TypeError", Some("aborted"), Some("z")) }
\* What the retry loop itself rejects with when it gives up.
LoopErrors == {v \in RejectionValues : v.isObject /\ v.ctor = "FirebaseError"}
\* What the mutation function may resolve with (already Into<JsValue>).
ResolveValues == {Prim("1"), Obj("Object", None, None)}

\* The mutation function's own values: T and Err on the Rust side, each
\* wrapping the JsValue its Into<JsValue> produces.
UserOk == {<<"T", v>> : v \in ResolveValues}
UserErr == {<<"E", e>> : e \in RejectionValues}
\* lines 213-214: .map(|v| v.into()) / .map_err(|err| err.into())
IntoJsValue(x) == x[2]

\* line 209: update_fn.borrow_mut() panics when the cell is already borrowed
BorrowNeverFails(b) == FALSE
BorrowFails(b) == b

\* lines 208-215: future_to_promise resolves with the Ok value and rejects
\* with the Err value of the async block.
ToPromiseAlwaysResolves(r) == <<"resolved", IntoJsValue(r[2])>>
ToPromise(r) ==
    IF r[1] = "Ok" THEN <<"resolved", IntoJsValue(r[2])>>
    ELSE <<"rejected", IntoJsValue(r[2])>>

\* lines 42-79: FirestoreErrorKind with strum's EnumString: the serialize
\* names, and the default variant Other(String) for every other string.
KindFromStr(s) ==
    CASE s = "cancelled" -> <<"Cancelled">>
      [] s = "unknown" -> <<"Unknown">>
      [] s = "invalid-argument" -> <<"InvalidArgument">>
      [] s = "deadline-exceeded" -> <<"DeadlineExceeded">>
      [] s = "not-found" -> <<"NotFound">>
      [] s = "already-exists" -> <<"AlreadyExists">>
      [] s = "permission-denied" -> <<"PermissionDenied">>
      [] s = "resource-exhausted" -> <<"ResourceExhausted">>
      [] s = "failed-precondition" -> <<"FailedPrecondition">>
      [] s = "aborted" -> <<"Aborted">>
      [] s = "out-of-range" -> <<"OutOfRange">>
      [] s = "unimplemented" -> <<"Unimplemented">>
      [] s = "internal" -> <<"Internal">>
      [] s = "unavailable" -> <<"Unavailable">>
      [] s = "data-loss" -> <<"DataLoss">>
      [] s = "unauthenticated" -> <<"Unauthenticated">>
      [] OTHER -> <<"Other", s>>

\* line 36: str::parse through the derived FromStr: Ok for every string,
\* the default variant taking what no name matches.
FromStrNoDefault(s) ==
    IF KindFromStr(s)[1] = "Other" THEN <<"Err", "VariantNotFound">>
    ELSE <<"Ok", KindFromStr(s)>>
FromStrResult(s) == <<"Ok", KindFromStr(s)>>

\* line 36: .unwrap() -- the value of Ok, a panic on Err
Unwrap(r) == IF r[1] = "Ok" THEN r[2] ELSE <<"panic">>

\* lines 34-40: From<FirebaseError> for FirestoreError
FromMessage(e) == [kind |-> Unwrap(FromStrResult(e.message[1])), source |-> e]
FromFirebaseError(e) == [kind |-> Unwrap(FromStrResult(e.code[1])), source |-> e]

\* lines 220-233: the map_err closure of run_transaction
MapErrByShape(v) ==
    IF v.isObject /\ v.code # None /\ v.message # None
    THEN <<"Firestore", FromFirebaseError(v)>>
    ELSE <<"Custom", v>>
MapErr(v) ==
    IF v.isObject
    THEN IF v.ctor = "FirebaseError"
         THEN <<"Firestore", FromFirebaseError(v)>>
         ELSE <<"Custom", v>>
    ELSE <<"Custom", v>>

\* Snapshots / errors among the elements returned so far.
YieldedOk == {yielded[i][2] : i \in {j \in DOMAIN yielded : yielded[j][1] = "Ok"}}
YieldedErrAt == {i \in DOMAIN yielded : yielded[i][1] = "Err"}

\* RefCell borrows. A turn is the sequence of its borrow events:
\* <<"mut", cell>> for borrow_mut(), <<"shared", cell>> for borrow(),
\* <<"release", cell>> where the guard goes out of scope.
FreeCells == [c \in Cells |-> [mut |-> FALSE, shared |-> 0]]

RECURSIVE RunBorrows(_, _)
RunBorrows(trace, h) ==
    IF trace = <<>> THEN [held |-> h, panic |-> FALSE]
    ELSE LET ev == Head(trace)
             c == ev[2]
         IN CASE ev[1] = "mut" ->
                   IF h[c].mut \/ h[c].shared > 0
                   THEN [held |-> h, panic |-> TRUE]
                   ELSE RunBorrows(Tail(trace), [h EXCEPT ![c].mut = TRUE])
              [] ev[1] = "shared" ->
                   IF h[c].mut
                   THEN [held |-> h, panic |-> TRUE]
                   ELSE RunBorrows(Tail(trace), [h EXCEPT ![c].shared = @ + 1])
              [] ev[1] = "release" ->
                   IF h[c].mut
                   THEN RunBorrows(Tail(trace), [h EXCEPT ![c].mut = FALSE])
                   ELSE RunBorrows(Tail(trace), [h EXCEPT ![c].shared = @ - 1])

\* lines 27-31: the borrow_mut of line 27 is a temporary of its statement;
\* the borrow of the waker lives to the end of the if-let.
OnSnapshotBorrows ==
    << <<"mut", "snapshot">>, <<"release", "snapshot">>,
       <<"shared", "waker">>, <<"release", "waker">> >>
\* lines 37-44
OnErrBorrows ==
    << <<"mut", "err">>, <<"release", "err">>,
       <<"mut", "completed">>, <<"release", "completed">>,
       <<"shared", "waker">>, <<"release", "waker">> >>
\* lines 49-56: waker_borrow lives to the end of the closure
OnCompleteClearsWaker ==
    << <<"mut", "completed">>, <<"release", "completed">>,
       <<"shared", "waker">>, <<"mut", "waker">>, <<"release", "waker">>,
       <<"release", "waker">> >>
OnCompleteBorrows ==
    << <<"mut", "completed">>, <<"release", "completed">>,
       <<"shared", "waker">>, <<"release", "waker">> >>
\* lines 103-126: temporaries at 103 and 105; the borrow_mut of the
\* if-let at 106 (completed) or at 115 (not completed) lives to the end of
\* that if-let.
PollBorrows(c) ==
    << <<"mut", "waker">>, <<"release", "waker">>,
       <<"shared", "completed">>, <<"release", "completed">> >>
    \o (IF c THEN << <<"mut", "err">>, <<"release", "err">> >>
        ELSE << <<"mut", "snapshot">>, <<"release", "snapshot">> >>)

\* ------------------------------------------------------------------- Init
Init ==
    /\ phase = "task"
    /\ snapshot = None
    /\ err = None
    /\ completed = FALSE
    /\ waker = None
    /\ unsubCalls = 0
    /\ emitter = "active"
    /\ delivered = 0
    /\ sincePoll = 0
    /\ errDelivered = None
    /\ lastPoll = NotPolled
    /\ prevPoll = NotPolled
    /\ cx = None
    /\ woken = {}
    /\ yielded = <<>>
    /\ exhausted = "no"
    /\ superseded = {}
    /\ polledOver = 0
    /\ teardown = <<>>
    /\ misfired = FALSE
    /\ held = FreeCells
    /\ borrowPanic = FALSE
    /\ op = "new"
    /\ tpc = "idle"
    /\ attempts = 0
    /\ calls = 0
    /\ borrowed = FALSE
    /\ attempt = None
    /\ final = <<"pending">>
    /\ result = None
    /\ outcome = None
    /\ executing = 0
    /\ fault = FALSE

\* ---------------------------------------------------------------- actions

\* The borrows of one whole turn, starting from what the turn before left.
BorrowTurn(trace) ==
    LET r == RunBorrows(trace, held) IN
        /\ held' = r.held
        /\ borrowPanic' = (borrowPanic \/ r.panic)

\* UploadTask::async_iter: four default cells, three closures, one
\* registration with on("state_changed", ...).
async_iter ==
    /\ phase = "task"
    /\ phase' = "iter"
    /\ snapshot' = None
    /\ err' = None
    /\ completed' = FALSE
    /\ waker' = None
    /\ unsubCalls' = 0
    /\ UNCHANGED <<held, borrowPanic>>
    /\ op' = "async_iter"
    /\ UNCHANGED txnVars
    /\ UNCHANGED <<emitter, delivered, sincePoll, errDelivered, lastPoll, prevPoll, cx,
                   woken, yielded, exhausted, superseded, polledOver, teardown, misfired>>

\* The on_snapshot closure, invoked by the emitter with the next snapshot.
on_snapshot ==
    /\ phase = "iter"
    /\ delivered < MaxSnapshots
    /\ delivered' = delivered + 1
    /\ sincePoll' = sincePoll + 1
    /\ snapshot' = StoreSnapshot(snapshot, delivered + 1)
    /\ woken' = Wake(waker, woken)
    /\ superseded' = IF snapshot # None THEN superseded \cup {snapshot[1]}
                      ELSE superseded
    /\ BorrowTurn(OnSnapshotBorrows)
    /\ op' = "on_snapshot"
    /\ UNCHANGED txnVars
    /\ UNCHANGED <<phase, err, completed, waker, unsubCalls, emitter,
                   errDelivered, lastPoll, prevPoll, cx, yielded, exhausted, polledOver, teardown, misfired>>

\* The on_err closure; the emitter reports an error at most once and
\* nothing terminal after it.
on_err(e) ==
    /\ phase = "iter"
    /\ emitter = "active"
    /\ emitter' = "ended"
    /\ errDelivered' = Some(e)
    /\ err' = StoreErr(err, e)
    /\ completed' = SetCompleted(completed)
    /\ woken' = Wake(waker, woken)
    /\ BorrowTurn(OnErrBorrows)
    /\ op' = "on_err"
    /\ UNCHANGED txnVars
    /\ UNCHANGED <<phase, snapshot, waker, unsubCalls, delivered, sincePoll,
                   lastPoll, prevPoll, cx, yielded, exhausted, superseded, polledOver, teardown, misfired>>

\* The on_complete closure.
on_complete ==
    /\ phase = "iter"
    /\ emitter = "active"
    /\ emitter' = "ended"
    /\ completed' = SetCompleted(completed)
    /\ woken' = Wake(waker, woken)
    /\ BorrowTurn(OnCompleteBorrows)
    /\ op' = "on_complete"
    /\ UNCHANGED txnVars
    /\ UNCHANGED <<phase, snapshot, err, waker, unsubCalls, delivered,
                   sincePoll, errDelivered, lastPoll, prevPoll, cx, yielded, exhausted,
                   superseded, polledOver, teardown, misfired>>

\* Stream::poll_next with a Context whose waker is w.
poll_next(w) ==
    /\ phase = "iter"
    /\ LET r == PollBranches(completed, err, snapshot) IN
        /\ waker' = StoreWaker(waker, w)
        /\ err' = r.err
        /\ snapshot' = r.snapshot
        /\ lastPoll' = r.ret
        /\ prevPoll' = lastPoll
        /\ yielded' = IF r.ret[1] = "Ready" /\ r.ret[2] # "None"
                      THEN Append(yielded, <<r.ret[2], r.ret[3]>>)
                      ELSE yielded
        /\ exhausted' = IF r.ret # ReadyNone THEN exhausted
                        ELSE IF exhausted = "no" THEN "once" ELSE "again"
        /\ unsubCalls' = UnsubAfterPoll(unsubCalls, r.ret)
    /\ completed' = CompletedAfterPoll(completed)
    /\ cx' = Some(w)
    /\ woken' = {}
    /\ polledOver' = sincePoll
    /\ sincePoll' = 0
    /\ BorrowTurn(PollBorrows(completed))
    /\ op' = "poll_next"
    /\ UNCHANGED txnVars
    /\ UNCHANGED <<phase, emitter, delivered, errDelivered, superseded,
                   teardown, misfired>>

\* Drop for UploadTaskAsyncIter: unsub is called, then the fields (the
\* closures and the cells) are released. The emitter may try to fire a
\* callback at any point k of it; it does fire while it is registered.
drop(k) ==
    /\ phase = "iter"
    /\ phase' = "dropped"
    /\ unsubCalls' = CallUnsub(unsubCalls)
    /\ teardown' = TeardownOrder
    /\ misfired' = (misfired \/ MisfireAt(TeardownOrder, k))
    /\ UNCHANGED <<held, borrowPanic>>
    /\ op' = "drop"
    /\ UNCHANGED txnVars
    /\ UNCHANGED <<snapshot, err, completed, waker, emitter, delivered,
                   sincePoll, errDelivered, lastPoll, prevPoll, cx, woken, yielded,
                   exhausted, superseded, polledOver>>

Next ==
    \/ async_iter
    \/ on_snapshot
    \/ \E e \in Errors : on_err(e)
    \/ on_complete
    \/ \E w \in Wakers : poll_next(w)
    \/ \E k \in 0..Len(TeardownOrder) : drop(k)

Spec == Init /\ [][Next]_vars

\* ------------------------------------------------- the consumer, scheduled
\* A consumer task that drives the stream to its end: it polls when it has
\* not polled yet, when its last poll returned an element, and when the
\* waker of its last poll has been woken; it stops polling at
\* sequence-exhausted and keeps the iterator until it has the terminal
\* outcome.
Runnable == lastPoll # Pending \/ (cx # None /\ cx[1] \in woken)
GotTerminal == lastPoll = ReadyNone \/ YieldedErrAt # {}

consumer_poll(w) ==
    /\ Runnable
    /\ lastPoll # ReadyNone
    /\ poll_next(w)

drop_at_end ==
    /\ GotTerminal
    /\ \E k \in 0..Len(TeardownOrder) : drop(k)

LiveNext ==
    \/ async_iter
    \/ on_snapshot
    \/ \E e \in Errors : on_err(e)
    \/ on_complete
    \/ \E w \in Wakers : consumer_poll(w)
    \/ drop_at_end

\* The executor polls a task that is runnable: weak fairness of the poll.
LiveSpec ==
    Init /\ [][LiveNext]_vars /\ WF_vars(\E w \in Wakers : consumer_poll(w))

\* ------------------------------------------------ run_transaction actions

\* run_transaction up to its await: the mutation function goes into an
\* Rc<RefCell<..>>, the closure is built, b::run_transaction is called.
run_transaction ==
    /\ tpc = "idle"
    /\ tpc' = "loop"
    /\ UNCHANGED <<attempts, calls, borrowed, attempt, final, result,
                   outcome, executing, fault>>
    /\ UNCHANGED streamVars

\* One call of the closure: future_to_promise starts the async block, which
\* borrows the mutation function mutably (a panic when it is borrowed
\* already) and calls it with the transaction of this attempt; the borrow
\* lives across the await.
closure_call ==
    /\ attempts' = attempts + 1
    /\ IF BorrowFails(borrowed)
       THEN /\ fault' = TRUE
            /\ tpc' = "faulted"
            /\ UNCHANGED <<borrowed, calls, executing, attempt, outcome>>
       ELSE /\ borrowed' = TRUE
            /\ calls' = calls + 1
            /\ executing' = executing + 1
            /\ attempt' = None
            /\ outcome' = None
            /\ tpc' = "awaiting"
            /\ UNCHANGED fault
    /\ UNCHANGED <<final, result>>
    /\ UNCHANGED streamVars

\* The retry loop invokes the closure for the next attempt, after the
\* promise of the previous one has settled.
invoke_update_fn ==
    /\ tpc = "loop"
    /\ attempts < MaxAttempts
    /\ closure_call

\* A caller that does not serialize: the closure is invoked while the
\* future of an attempt is still suspended.
invoke_overlapping ==
    /\ tpc = "awaiting"
    /\ attempts < MaxAttempts
    /\ closure_call

\* The future of the mutation function completes with r (Ok or Err): the
\* async block ends, the borrow with it, and the promise of the attempt
\* settles.
update_fn_done(r) ==
    /\ tpc = "awaiting"
    /\ borrowed' = FALSE
    /\ executing' = executing - 1
    /\ outcome' = Some(r)
    /\ attempt' = Some(ToPromise(r))
    /\ tpc' = "answered"
    /\ UNCHANGED <<attempts, calls, final, result, fault>>
    /\ UNCHANGED streamVars

update_fn_ok(v) == update_fn_done(<<"Ok", v>>)

update_fn_err(e) == update_fn_done(<<"Err", e>>)

\* The retry loop decides to run the mutation again.
loop_retry ==
    /\ tpc = "answered"
    /\ attempts < MaxAttempts
    /\ tpc' = "loop"
    /\ UNCHANGED <<attempts, calls, borrowed, attempt, final, result,
                   outcome, executing, fault>>
    /\ UNCHANGED streamVars

\* The retry loop commits: its promise resolves.
loop_resolve ==
    /\ tpc = "answered"
    /\ attempt[1][1] = "resolved"
    /\ final' = <<"resolved">>
    /\ tpc' = "settled"
    /\ UNCHANGED <<attempts, calls, borrowed, attempt, result,
                   outcome, executing, fault>>
    /\ UNCHANGED streamVars

\* The retry loop gives up: its promise rejects, with what the attempt
\* rejected with or with an error of its own.
loop_reject(v) ==
    /\ tpc = "answered"
    /\ \/ attempt[1] = <<"rejected", v>>
       \/ v \in LoopErrors
    /\ final' = <<"rejected", v>>
    /\ tpc' = "settled"
    /\ UNCHANGED <<attempts, calls, borrowed, attempt, result,
                   outcome, executing, fault>>
    /\ UNCHANGED streamVars

\* run_transaction after its await: Ok(()) or the mapped error.
run_transaction_return ==
    /\ tpc = "settled"
    /\ result' = IF final[1] = "resolved" THEN Some(<<"Ok">>)
                 ELSE Some(MapErr(final[2]))
    /\ tpc' = "done"
    /\ UNCHANGED <<attempts, calls, borrowed, attempt, final,
                   outcome, executing, fault>>
    /\ UNCHANGED streamVars

TxnNext ==
    \/ run_transaction
    \/ invoke_update_fn
    \/ \E v \in UserOk : update_fn_ok(v)
    \/ \E e \in UserErr : update_fn_err(e)
    \/ loop_retry
    \/ loop_resolve
    \/ \E v \in RejectionValues : loop_reject(v)
    \/ run_transaction_return

TxnSpec == Init /\ [][TxnNext]_vars

\* The same with a caller that may invoke the closure again before the
\* running attempt has settled.
OverlapNext ==
    \/ TxnNext
    \/ invoke_overlapping

OverlapSpec == Init /\ [][OverlapNext]_vars

\* ----------------------------------------------------------------- claims


\* C1 (latest-wins): a poll_next that finds two or more on-progress
\* deliveries since the previous poll, on a stream that is not completed,
\* returns Ok of the most recently delivered snapshot and empties the slot;
\* a snapshot overwritten in the slot before a poll took it is never among
\* the elements returned; the slot never holds more than one snapshot.
C1_LatestWins ==
    /\ (op = "poll_next" /\ polledOver >= 2 /\ ~completed)
          => (lastPoll = ReadyOk(delivered) /\ snapshot = None)
    /\ superseded \cap YieldedOk = {}
    /\ Len(snapshot) <= 1
C1_Witness ==
    /\ op = "poll_next"
    /\ polledOver = 2
    /\ ~completed
    /\ yielded = << <<"Ok", 1>>, <<"Ok", 3>> >>
    /\ superseded = {2}

\* C2 (completion precedence): a poll_next that runs while the completion
\* flag is true never returns Ok(snapshot), whether a snapshot sits in the
\* slot or not: it returns the delivered error or sequence-exhausted.
C2_CompletionPrecedence ==
    (op = "poll_next" /\ completed)
        => \/ lastPoll = ReadyNone
           \/ errDelivered # None /\ lastPoll = ReadyErr(errDelivered[1])
C2_Witness ==
    /\ op = "poll_next"
    /\ completed
    /\ snapshot # None
    /\ polledOver >= 1
    /\ lastPoll = ReadyNone

\* C3 (exhaustion is idempotent): once on-complete has been delivered (the
\* emitter ended without an error), every poll_next returns
\* sequence-exhausted, the first one and each one after it.
C3_ExhaustionIdempotent ==
    (op = "poll_next" /\ emitter = "ended" /\ errDelivered = None)
        => (lastPoll = ReadyNone /\ exhausted # "no")
C3_Witness ==
    /\ op = "poll_next"
    /\ emitter = "ended"
    /\ errDelivered = None
    /\ exhausted = "again"

\* C4 (terminal error exactly once, last): a poll_next that finds the error
\* slot full returns Err of the delivered error and leaves the slot empty;
\* every poll_next after that returns sequence-exhausted; the error occurs
\* at most once among the elements returned and nothing follows it.
C4_ErrorOnceAndLast ==
    /\ [][(op' = "poll_next" /\ err # None)
            => (lastPoll' = ReadyErr(err[1]) /\ err' = None
                /\ err = errDelivered)]_vars
    /\ [][(op' = "poll_next" /\ YieldedErrAt # {}) => lastPoll' = ReadyNone]_vars
    /\ [](Cardinality(YieldedErrAt) <= 1)
    /\ [](YieldedErrAt # {} =>
            /\ YieldedErrAt = {Len(yielded)}
            /\ yielded[Len(yielded)] = <<"Err", errDelivered[1]>>
            /\ err = None)
    /\ [](errDelivered # None =>
            (err = errDelivered /\ YieldedErrAt = {})
            \/ (err = None /\ YieldedErrAt # {}))
C4_Witness ==
    /\ op = "poll_next"
    /\ errDelivered = Some("e2")
    /\ yielded = << <<"Ok", 1>>, <<"Err", "e2">> >>
    /\ exhausted = "again"
    /\ snapshot # None

\* C5 (single deregistration): once the iterator has been dropped, whatever
\* callbacks and polls came before, the unsubscribe function has been
\* invoked exactly once; it is never invoked more than once.
C5_SingleDeregistration ==
    /\ phase = "dropped" => unsubCalls = 1
    /\ unsubCalls <= 1
C5_Witness ==
    /\ phase = "dropped"
    /\ unsubCalls = 1
    /\ errDelivered # None
    /\ err # None
    /\ delivered >= 1

\* The structured error shape: an object with a code and a message.
HasErrorShape(v) == v.isObject /\ v.code # None /\ v.message # None
\* The probe of the code: an object whose constructor is named FirebaseError.
IsFirebaseError(v) == v.isObject /\ v.ctor = "FirebaseError"
\* The recognized codes and the kinds they name.
KindNames ==
    { <<"cancelled", "Cancelled">>, <<"unknown", "Unknown">>,
      <<"invalid-argument", "InvalidArgument">>,
      <<"deadline-exceeded", "DeadlineExceeded">>,
      <<"not-found", "NotFound">>, <<"already-exists", "AlreadyExists">>,
      <<"permission-denied", "PermissionDenied">>,
      <<"resource-exhausted", "ResourceExhausted">>,
      <<"failed-precondition", "FailedPrecondition">>,
      <<"aborted", "Aborted">>, <<"out-of-range", "OutOfRange">>,
      <<"unimplemented", "Unimplemented">>, <<"internal", "Internal">>,
      <<"unavailable", "Unavailable">>, <<"data-loss", "DataLoss">>,
      <<"unauthenticated", "Unauthenticated">> }
Rejected == tpc = "done" /\ final[1] = "rejected"

\* C6 as stated (structured-error classification by shape): when the final
\* promise rejected with a value that has the structured error shape,
\* run_transaction returned TransactionError::Firestore whose kind is the
\* one its code names.
C6_ShapeClassified ==
    (Rejected /\ HasErrorShape(final[2]))
        => /\ result[1][1] = "Firestore"
           /\ \A p \in KindNames :
                 final[2].code[1] = p[1] => result[1][2].kind = <<p[2]>>

\* C6 as amended: when the final promise rejected with an object of the
\* structured shape whose constructor is named FirebaseError,
\* run_transaction returned TransactionError::Firestore carrying that
\* error, whose kind is the one its code names (NotFound for "not-found").
C6_ConstructorClassified ==
    (Rejected /\ HasErrorShape(final[2]) /\ IsFirebaseError(final[2]))
        => /\ result[1][1] = "Firestore"
           /\ result[1][2].source = final[2]
           /\ \A p \in KindNames :
                 final[2].code[1] = p[1] => result[1][2].kind = <<p[2]>>
C6_Witness ==
    /\ Rejected
    /\ attempts = 2
    /\ final[2] = Obj("FirebaseError", Some("not-found"), Some("x"))
    /\ result = Some(<<"Firestore", [kind |-> <<"NotFound">>, source |-> final[2]]>>)

\* C7 (opaque failures verbatim): when the final promise rejected with a
\* value that is not a domain error (not an object, an object without the
\* structured shape, or an object not constructed by FirebaseError),
\* run_transaction returned TransactionError::Custom carrying exactly that
\* value.
C7_OpaqueVerbatim ==
    (Rejected /\ ~(HasErrorShape(final[2]) /\ IsFirebaseError(final[2])))
        => result = Some(<<"Custom", final[2]>>)
C7_Witness ==
    /\ Rejected
    /\ attempt = Some(<<"rejected", Prim("42")>>)
    /\ final[2] = Prim("42")
    /\ result = Some(<<"Custom", Prim("42")>>)

\* C8 (no lost wakeup): after a poll_next the waker slot holds the waker of
\* that poll; when the most recent poll_next returned Pending and a
\* snapshot, an error or a completion is now pending, the waker of that
\* poll (and no other) has been woken since.
C8_NoLostWakeup ==
    /\ (phase = "iter" /\ cx # None) => waker = cx
    /\ (phase = "iter" /\ cx # None) => woken \subseteq {cx[1]}
    /\ (phase = "iter" /\ lastPoll = Pending /\ (snapshot # None \/ completed))
          => woken = {cx[1]}
C8_Witness ==
    /\ phase = "iter"
    /\ lastPoll = Pending
    /\ yielded # <<>>
    /\ completed
    /\ cx = Some(2)
    /\ woken = {2}

\* C9 (the terminal state is never missed): with a consumer that polls
\* whenever it is runnable, a delivered error is eventually returned as
\* Err of that error and a delivered completion is eventually answered by
\* sequence-exhausted.
C9_TerminalNeverMissed ==
    /\ \A e \in Errors :
          (errDelivered = Some(e)) ~> (<<"Err", e>> \in {yielded[i] : i \in DOMAIN yielded})
    /\ (emitter = "ended" /\ errDelivered = None) ~> (lastPoll = ReadyNone)
C9_Witness ==
    /\ op = "poll_next"
    /\ prevPoll = Pending
    /\ lastPoll = ReadyNone
    /\ errDelivered = None
    /\ snapshot # None

C11_ExclusiveAccess ==
    /\ executing <= 1
    /\ tpc = "awaiting" => (borrowed /\ executing = 1 /\ ~fault)
    /\ tpc \in {"idle", "loop", "answered", "settled", "done"}
          => (~borrowed /\ executing = 0 /\ ~fault)
    /\ tpc = "faulted" => (fault /\ borrowed /\ executing = 1
                           /\ calls = attempts - 1)
    /\ ~fault => calls = attempts
C11_Witness ==
    /\ tpc = "faulted"
    /\ fault
    /\ attempts = 3
    /\ calls = 2
    /\ executing = 1

\* C12 (exactly once per attempt, no internal retry): with a serializing
\* retry loop the mutation function has been called as often as the
\* closure; the promise of an attempt is pending while the future runs, and
\* once settled it is resolved exactly when the mutation gave Ok and
\* rejected exactly when it gave Err, with the converted value.
C12_ExactlyOncePerAttempt ==
    /\ calls = attempts
    /\ tpc = "awaiting" => (attempt = None /\ outcome = None)
    /\ attempt # None =>
          /\ outcome # None
          /\ attempt[1][1] = "resolved" <=> outcome[1][1] = "Ok"
          /\ attempt[1][1] = "rejected" <=> outcome[1][1] = "Err"
          /\ attempt[1][2] = outcome[1][2][2]
C12_Witness ==
    /\ tpc = "answered"
    /\ attempts = 2
    /\ calls = 2
    /\ outcome = Some(<<"Err", <<"E", Prim("42")>> >>)
    /\ attempt = Some(<<"rejected", Prim("42")>>)

\* C13 (the completion flag is monotonic): the flag is false before and
\* right after async_iter, and no step of any callback, poll or drop takes
\* it from true to false.
C13_CompletedMonotonic ==
    /\ [](phase = "task" => ~completed)
    /\ [][op' = "async_iter" => ~completed']_vars
    /\ [][completed => completed']_vars
C13_Witness ==
    /\ completed
    /\ phase = "dropped"
    /\ exhausted = "again"
    /\ delivered >= 1
    /\ yielded # <<>>

\* C14 (no duplication, no invention): every snapshot returned as Ok was
\* delivered by on_snapshot, no snapshot is returned twice, the slot is
\* empty after a poll returned Ok, and a poll on a stream that is not
\* completed with no delivery since the previous poll returns Pending.
C14_NoDuplicationNoInvention ==
    /\ YieldedOk \subseteq 1..delivered
    /\ Cardinality(YieldedOk) + Cardinality(YieldedErrAt) = Len(yielded)
    /\ (op = "poll_next" /\ lastPoll[1] = "Ready" /\ lastPoll[2] = "Ok")
          => snapshot = None
    /\ (op = "poll_next" /\ ~completed /\ polledOver = 0) => lastPoll = Pending
C14_Witness ==
    /\ op = "poll_next"
    /\ ~completed
    /\ polledOver = 0
    /\ prevPoll = ReadyOk(2)
    /\ lastPoll = Pending
    /\ yielded = << <<"Ok", 1>>, <<"Ok", 2>> >>

\* C15 (deregistration only by destruction): while the iterator is alive
\* the unsubscribe function has not been invoked, whatever was delivered
\* and whatever the polls returned; once it is dropped, completed or not,
\* the function has been invoked.
C15_UnsubOnlyOnDrop ==
    /\ phase = "iter" => unsubCalls = 0
    /\ (phase = "dropped" /\ ~completed) => unsubCalls = 1
C15_Witness ==
    /\ phase = "iter"
    /\ op = "poll_next"
    /\ exhausted = "again"
    /\ YieldedErrAt # {}
    /\ unsubCalls = 0

\* C17 (frame conditions): on_snapshot writes the snapshot slot only,
\* on_err the error slot and the flag only, on_complete the flag only, and
\* none of them empties a slot or changes the waker; poll_next stores its
\* waker and otherwise only empties the slot whose content it returns; a
\* poll returning Pending or sequence-exhausted changes the waker only.
C17_FrameConditions ==
    /\ [][op' = "on_snapshot" =>
            /\ snapshot' # None
            /\ UNCHANGED <<err, completed, waker, unsubCalls>>]_vars
    /\ [][op' = "on_err" =>
            /\ err' # None /\ completed'
            /\ UNCHANGED <<snapshot, waker, unsubCalls>>]_vars
    /\ [][op' = "on_complete" =>
            /\ completed'
            /\ UNCHANGED <<snapshot, err, waker, unsubCalls>>]_vars
    /\ [][op' = "poll_next" =>
            /\ waker' = cx' /\ cx' # None
            /\ UNCHANGED <<completed, unsubCalls>>
            /\ lastPoll'[1] = "Pending" => UNCHANGED <<snapshot, err>>
            /\ lastPoll' = ReadyNone => UNCHANGED <<snapshot, err>>
            /\ (lastPoll'[1] = "Ready" /\ lastPoll'[2] = "Ok") =>
                  (snapshot = Some(lastPoll'[3]) /\ snapshot' = None
                   /\ UNCHANGED err)
            /\ (lastPoll'[1] = "Ready" /\ lastPoll'[2] = "Err") =>
                  (err = Some(lastPoll'[3]) /\ err' = None
                   /\ UNCHANGED snapshot)]_vars
C17_Witness ==
    /\ op = "poll_next"
    /\ lastPoll = ReadyNone
    /\ snapshot = Some(3)
    /\ err = None
    /\ waker = Some(1)
    /\ prevPoll = ReadyErr("e1")

\* C16 (teardown ordering): in a dropped iterator the unsubscribe call was
\* the first step of the teardown, before every closure and every cell was
\* released; no callback was invoked on a released closure, and nothing
\* ran after the drop.
C16_TeardownOrdering ==
    /\ phase # "dropped" => teardown = <<>>
    /\ phase = "dropped" =>
          /\ teardown # <<>>
          /\ teardown[1] = "unsub.call0"
          /\ \A i \in DOMAIN teardown :
                teardown[i] \in Closures \cup Cells => i > 1
          /\ Closures \cup Cells \subseteq {teardown[i] : i \in DOMAIN teardown}
          /\ op = "drop"
    /\ ~misfired
C16_Witness ==
    /\ phase = "dropped"
    /\ ~completed
    /\ snapshot # None
    /\ waker # None
    /\ teardown[1] = "unsub.call0"
    /\ ~misfired

\* C18 (no borrow conflict): with whole callback turns and whole poll
\* turns on one scheduler, no borrow() or borrow_mut() of a shared cell
\* finds a conflicting borrow, and every turn ends with all cells free.
C18_NoBorrowConflict ==
    /\ ~borrowPanic
    /\ held = FreeCells
C18_Witness ==
    /\ op = "poll_next"
    /\ prevPoll = Pending
    /\ lastPoll = ReadyErr("e1")
    /\ delivered >= 2
    /\ held = FreeCells
    /\ ~borrowPanic

\* C19 (error-kind decoding is total): converting a FirebaseError never
\* faults, whatever its code; a code that is one of the recognized names
\* gives the kind of that name, every other code gives Other carrying the
\* code string.
C19_DecodingTotal ==
    (Rejected /\ HasErrorShape(final[2]) /\ IsFirebaseError(final[2])) =>
        LET code == final[2].code[1]
            kind == result[1][2].kind
        IN /\ result[1][1] = "Firestore"
           /\ kind # <<"panic">>
           /\ \A p \in KindNames : code = p[1] => kind = <<p[2]>>
           /\ code \notin {p[1] : p \in KindNames} => kind = <<"Other", code>>
C19_Witness ==
    /\ Rejected
    /\ final[2] = Obj("FirebaseError", Some("NOT-FOUND"), Some("x"))
    /\ result[1][2].kind = <<"Other", "NOT-FOUND">>

====
